---- MODULE Spec2Model ----
(***************************************************************************)
(* A model of draw_exons.py: the Exon, CDS and CDS_group classes and the   *)
(* add_margin function.                                                    *)
(*                                                                         *)
(* Pixel positions are rationals in the source (Python floats that are     *)
(* only partly truncated with int()).  A CDS record therefore carries a    *)
(* denominator `den`: every x position of the CDS and of its exons is a    *)
(* numerator over cds.den.  A CDS built by the caller from integer pixel   *)
(* positions has den = 1; a CDS built by CDS_group.make_cdss has den =     *)
(* range_x, the divisor of the source's x1/x2 expressions.  Arithmetic is  *)
(* exact rational arithmetic; binary64 rounding is not modelled (on the    *)
(* inputs enumerated here the two agree).                                  *)
(*                                                                         *)
(* An image is the list of primitives drawn on it, in paint order.  The    *)
(* variable `images` is the heap of PIL images; a canvas (ImageDraw.Draw)  *)
(* is the index of the image it draws into.                                *)
(***************************************************************************)
EXTENDS Integers, Sequences, FiniteSets, TLC

VARIABLES
    cds,     \* the stand-alone CDS instance (track specification)
    grp,     \* the CDS_group instance (group specification)
    images,  \* heap of images: Seq of [w, h, ops]
    pass,    \* the last call: [op, label, drawn, ret]
    err,     \* the exception the last call raised, or "none"
    calls    \* number of calls made so far

vars == <<cds, grp, images, pass, err, calls>>

----------------------------------------------------------------------------
(* Bounds and enumerated inputs *)

MaxExons == 2
MaxCalls == 3
MaxTracks == 2
MaxGroupCalls == 2
GlyphWidth == 3

\* the (start, end) intervals a stand-alone track is built from
Intervals == {<<0, 2>>, <<2, 5>>, <<5, 5>>}

RECURSIVE SeqsUpTo(_, _)
SeqsUpTo(S, n) ==
    IF n = 0 THEN {<<>>}
    ELSE LET shorter == SeqsUpTo(S, n - 1)
         IN  shorter \cup {Append(s, x) : s \in {t \in shorter : Len(t) = n - 1}, x \in S}

CoordLists == SeqsUpTo(Intervals, MaxExons)

\* stand-alone pixel boxes <<x1, x2>>, canvas size, and track geometry
Boxes == {<<2, 12>>, <<1, 8>>}
CanvSize == <<16, 12>>
TrackY == <<3, 6>>      \* y and height of the stand-alone CDS
\* the track of example_highlight_exon.py: intervals, <<x1, x2>>, <<y, height>>
ExampleCoords == <<<<80, 420>>, <<600, 770>>, <<900, 1220>>, <<1500, 1730>>, <<1800, 1900>>>>
ExampleBox == <<400, 2800>>
ExampleY == <<300, 200>>
TrackInputs ==
    {<<ec, box, TrackY>> : ec \in CoordLists, box \in Boxes}
        \cup {<<ExampleCoords, ExampleBox, ExampleY>>}
Fill == "teal"
Outline == "black"
Highlight == "lilac"
LineWidths == <<1, 2>>  \* linewidth of the stand-alone CDS, of the group

----------------------------------------------------------------------------
(* Arithmetic helpers *)

\* Python int(a / b) for b > 0: truncation toward zero
Trunc(a, b) == IF a >= 0 THEN a \div b ELSE -((-a) \div b)

\* the one element of a singleton set; {e(v) : v \in {x}} evaluates x once
The(S) == CHOOSE x \in S : TRUE

SetMin(S) == CHOOSE m \in S : \A x \in S : m <= x
SetMax(S) == CHOOSE m \in S : \A x \in S : m >= x

\* [coord for coords in exon_coords for coord in coords], as a set
AllCoords(exon_coords) ==
    UNION {{exon_coords[i][1], exon_coords[i][2]} : i \in 1..Len(exon_coords)}

----------------------------------------------------------------------------
(* Drawing primitives: a drawing state ds is [images, drawn] *)

Prim(kind, x1, y1, x2, y2, xden, yden, fill, outline, width) ==
    [kind |-> kind, x1 |-> x1, y1 |-> y1, x2 |-> x2, y2 |-> y2,
     xden |-> xden, yden |-> yden, fill |-> fill, outline |-> outline,
     width |-> width]

Paint(ds, canv, prim) ==
    [images |-> [ds.images EXCEPT ![canv].ops = Append(@, prim)],
     drawn  |-> Append(ds.drawn, [canv |-> canv, prim |-> prim])]

NewImage(w, h) == [w |-> w, h |-> h, ops |-> <<>>]

----------------------------------------------------------------------------
(* class Exon *)

NewExon(canv, x1, x2, y, height, fill, outline, linewidth, den) ==
    [canv |-> canv, x1 |-> x1, x2 |-> x2, y |-> y, height |-> height,
     fill |-> fill, outline |-> outline, linewidth |-> linewidth, den |-> den]

\* Exon.draw: one rectangle on the canvas the exon was constructed with
ExonDraw(ds, exon) ==
    Paint(ds, exon.canv,
          Prim("rect", exon.x1, exon.y, exon.x2, exon.y + exon.height,
               exon.den, 1, exon.fill, exon.outline, exon.linewidth))

----------------------------------------------------------------------------
(* class CDS *)

NewCDS(canv, cds_id, exon_coords, x1, x2, den, y, height, fill, outline, linewidth) ==
    [canv |-> canv, cds_id |-> cds_id, exon_coords |-> exon_coords,
     x1 |-> x1, x2 |-> x2, den |-> den, y |-> y, height |-> height,
     width |-> x2 - x1, fill |-> fill, outline |-> outline,
     linewidth |-> linewidth, exons |-> <<>>]

\* mutant: the offset of the track's smallest coordinate is not subtracted
ToPixel_NoOffset(c, coord, min_x, range_x) ==
    c.x1 + c.den * Trunc(coord * c.width, range_x * c.den)

\* self.x1 + int(((c - min_x) / range_x) * self.width), as a numerator over c.den
ToPixel(c, coord, min_x, range_x) ==
    c.x1 + c.den * Trunc((coord - min_x) * c.width, range_x * c.den)

\* the Exon make_exons constructs for one interval
LayoutExon(c, coords, min_x, range_x) ==
    NewExon(c.canv, ToPixel(c, coords[1], min_x, range_x),
            ToPixel(c, coords[2], min_x, range_x),
            c.y, c.height, c.fill, c.outline, c.linewidth, c.den)

\* mutant: the exons are appended in descending start order
AppendExons_Reversed(c, min_x, range_x) ==
    c.exons \o [i \in 1..Len(c.exon_coords) |->
                    LayoutExon(c, c.exon_coords[Len(c.exon_coords) + 1 - i], min_x, range_x)]

\* the list self.exons after the loop has appended one Exon per interval
AppendExons(c, min_x, range_x) ==
    c.exons \o [i \in 1..Len(c.exon_coords) |->
                    LayoutExon(c, c.exon_coords[i], min_x, range_x)]

\* CDS.make_exons: [cds, err]
make_exons(c) ==
    LET all_coords == AllCoords(c.exon_coords) IN
    IF all_coords = {} THEN [cds |-> c, err |-> "ValueError"]
    ELSE LET min_x == SetMin(all_coords)
             max_x == SetMax(all_coords)
             range_x == max_x - min_x
         IN  IF range_x = 0 THEN [cds |-> c, err |-> "ZeroDivisionError"]
             ELSE [cds |-> [c EXCEPT !.exons = AppendExons(c, min_x, range_x)],
                   err |-> "none"]

\* CDS.draw_exons: every exon of self.exons draws itself, in list order
RECURSIVE draw_exons_from(_, _, _)
draw_exons_from(ds, exons, i) ==
    IF i > Len(exons) THEN ds
    ELSE The({draw_exons_from(d, exons, i + 1) : d \in {ExonDraw(ds, exons[i])}})

draw_exons(ds, c) == draw_exons_from(ds, c.exons, 1)

\* the two segments drawn between exons i-1 and i; y positions are in
\* quarter pixels (yden = 4) because y_midpoint = y - height / 4
Connector(c, i) ==
    LET x1 == c.exons[i - 1].x2
        x2 == c.exons[i].x1
        midpoint == c.den * Trunc(x1 + x2, 2 * c.den)
        y == Trunc(2 * c.y + c.height, 2)
        y_midpoint == 4 * y - c.height
    IN  <<Prim("line", x1, 4 * y, midpoint, y_midpoint, c.den, 4,
               c.outline, c.outline, c.linewidth),
          Prim("line", midpoint, y_midpoint, x2, 4 * y, c.den, 4,
               c.outline, c.outline, c.linewidth)>>

\* CDS.draw_lines: for i in range(1, len(self.exons)), on self.canv
RECURSIVE draw_lines_from(_, _, _)
draw_lines_from(ds, c, i) ==
    IF i > Len(c.exons) THEN ds
    ELSE The({draw_lines_from(d2, c, i + 1) :
                  d2 \in {Paint(d1, c.canv, Connector(c, i)[2]) :
                              d1 \in {Paint(ds, c.canv, Connector(c, i)[1])}}})

draw_lines(ds, c) == draw_lines_from(ds, c, 2)

\* CDS.draw: [cds, ds, err]
cds_draw(ds, c) ==
    The({IF made.err # "none" THEN [cds |-> made.cds, ds |-> ds, err |-> made.err]
         ELSE [cds |-> made.cds,
               ds  |-> The({draw_lines(d, made.cds) : d \in {draw_exons(ds, made.cds)}}),
               err |-> "none"] : made \in {make_exons(c)}})

\* CDS.redraw: a blank image of the same size becomes self.canv, then as draw.
\* The new canvas stays assigned when make_exons raises.
cds_redraw(ds, c) ==
    LET old == ds.images[c.canv]
        new_canv == [images |-> Append(ds.images, NewImage(old.w, old.h)),
                     drawn |-> ds.drawn]
    IN  The({cds_draw(fresh, [c EXCEPT !.canv = Len(fresh.images)]) :
                 fresh \in {new_canv}})

----------------------------------------------------------------------------
(* The stand-alone track: one CDS on a caller-made canvas *)

NoGroup == [cdss |-> <<>>]
NoCDS == [exons |-> <<>>]

Start(op) == [images |-> images, drawn |-> <<>>]

Called(op, label, ds, e, ret) ==
    /\ images' = ds.images
    /\ pass' = [op |-> op, label |-> label, drawn |-> ds.drawn, ret |-> ret]
    /\ err' = e
    /\ calls' = calls + 1

InitTrack ==
    /\ \E in \in TrackInputs :
           cds = NewCDS(1, <<>>, in[1], in[2][1], in[2][2], 1, in[3][1], in[3][2],
                        Fill, Outline, LineWidths[1])
    /\ grp = NoGroup
    /\ images = <<NewImage(CanvSize[1], CanvSize[2])>>
    /\ pass = [op |-> "init", label |-> FALSE, drawn |-> <<>>, ret |-> 0]
    /\ err = "none"
    /\ calls = 0

TrackReady == err = "none" /\ calls < MaxCalls

MakeExons ==
    /\ TrackReady
    /\ \E made \in {make_exons(cds)} :
       /\ cds' = made.cds
       /\ Called("make_exons", FALSE, Start("make_exons"), made.err, 0)
    /\ UNCHANGED grp

DrawExons ==
    /\ TrackReady
    /\ cds' = cds
    /\ Called("draw_exons", FALSE, draw_exons(Start("draw_exons"), cds), "none", cds.canv)
    /\ UNCHANGED grp

DrawLines ==
    /\ TrackReady
    /\ cds' = cds
    /\ Called("draw_lines", FALSE, draw_lines(Start("draw_lines"), cds), "none", cds.canv)
    /\ UNCHANGED grp

Draw ==
    /\ TrackReady
    /\ \E r \in {cds_draw(Start("draw"), cds)} :
       /\ cds' = r.cds
       /\ Called("draw", FALSE, r.ds, r.err, r.cds.canv)
    /\ UNCHANGED grp

Redraw ==
    /\ TrackReady
    /\ \E r \in {cds_redraw(Start("redraw"), cds)} :
       /\ cds' = r.cds
       /\ Called("redraw", FALSE, r.ds, r.err, r.cds.canv)
    /\ UNCHANGED grp

\* the caller's override: cds.exons[k].fill = colour
SetFill ==
    /\ TrackReady
    /\ \E k \in 1..Len(cds.exons) :
           /\ cds' = [cds EXCEPT !.exons[k].fill = Highlight]
           /\ Called("set_fill", FALSE, Start("set_fill"), "none", k)
    /\ UNCHANGED grp

NextTrack == MakeExons \/ DrawExons \/ DrawLines \/ Draw \/ Redraw \/ SetFill

Spec == InitTrack /\ [][NextTrack]_vars

----------------------------------------------------------------------------
(* class CDS_group and add_margin *)

\* enumerated inputs of the group: the interval lists a track may have,
\* <<width, margin>> pairs, <<cds_height, cds_spacing>>, colours and labels
GroupTracks ==
    {<<>>, <<<<0, 2>>, <<4, 8>>>>, <<<<2, 4>>>>, <<<<0, 2>>, <<3, 4>>>>, <<<<4, 4>>>>}
Layouts == {<<40, 5>>, <<30, 10>>, <<12, 8>>}
GroupGeom == <<4, 2>>
Palette == <<"teal", "yellow", "lilac", "red", "blue">>
Names == <<"A", "TrB", "TranscriptC", "D4", "E">>

\* CDS_group.__init__ (cdss starts as the empty list)
NewGroup(cds_coords, cds_ids, cds_height, cds_spacing, width, margin, fill_colours, outline_colours, linewidth) ==
    [cds_coords |-> cds_coords, cds_ids |-> cds_ids, cdss |-> <<>>,
     cds_height |-> cds_height, cds_spacing |-> cds_spacing,
     width |-> width, margin |-> margin,
     height |-> (cds_height * Len(cds_coords))
                + (cds_spacing * (Len(cds_coords) - 1)) + (2 * margin),
     fill_colours |-> fill_colours, outline_colours |-> outline_colours,
     linewidth |-> linewidth, img |-> 1, canv |-> 1]

\* list(flatten(self.cds_coords)), as a set
GroupCoords(g) == UNION {AllCoords(g.cds_coords[i]) : i \in 1..Len(g.cds_coords)}

\* x1 of track i: margin + ((min_coord - min_x) / range_x) * width_less_margin,
\* as a numerator over range_x
TrackX1(g, min_coord, min_x, range_x) ==
    g.margin * range_x + (min_coord - min_x) * (g.width - 2 * g.margin)

\* mutant: the right margin is not kept clear
TrackX2_NoMargin(g, max_coord, max_x, range_x) ==
    g.width * range_x - (max_x - max_coord) * (g.width - 2 * g.margin)

\* x2 of track i: width - margin - ((max_x - max_coord) / range_x) * width_less_margin
TrackX2(g, max_coord, max_x, range_x) ==
    (g.width - g.margin) * range_x - (max_x - max_coord) * (g.width - 2 * g.margin)

\* y of track i (1-based here, 0-based in the source)
TrackYOf(g, i) == g.margin + ((i - 1) * g.cds_height) + ((i - 1) * g.cds_spacing)

\* the CDS constructed for track i
GroupCDS(g, i, min_x, max_x) ==
    LET exon_coords == g.cds_coords[i]
        range_x == max_x - min_x
    IN  NewCDS(g.canv,
               IF Len(g.cds_ids) > 0 THEN <<g.cds_ids[i]>> ELSE <<>>,
               exon_coords,
               TrackX1(g, SetMin(AllCoords(exon_coords)), min_x, range_x),
               TrackX2(g, SetMax(AllCoords(exon_coords)), max_x, range_x),
               range_x, TrackYOf(g, i), g.cds_height,
               g.fill_colours[i], g.outline_colours[i], g.linewidth)

\* what stops the loop body of make_cdss for track i, in evaluation order
TrackError(g, i, range_x) ==
    IF AllCoords(g.cds_coords[i]) = {} THEN "ValueError"
    ELSE IF range_x = 0 THEN "ZeroDivisionError"
    ELSE IF i > Len(g.fill_colours) THEN "IndexError"
    ELSE IF i > Len(g.outline_colours) THEN "IndexError"
    ELSE IF Len(g.cds_ids) > 0 /\ i > Len(g.cds_ids) THEN "IndexError"
    ELSE "none"

\* the loop of make_cdss from track i on: the tracks built before an
\* exception stay appended to self.cdss
RECURSIVE make_cdss_from(_, _, _, _)
make_cdss_from(g, i, min_x, max_x) ==
    IF i > Len(g.cds_coords) THEN [grp |-> g, err |-> "none"]
    ELSE IF TrackError(g, i, max_x - min_x) # "none"
         THEN [grp |-> g, err |-> TrackError(g, i, max_x - min_x)]
    ELSE The({make_cdss_from(g2, i + 1, min_x, max_x) :
                  g2 \in {[g EXCEPT !.cdss = Append(@, GroupCDS(g, i, min_x, max_x))]}})

\* CDS_group.make_cdss: [grp, err]
make_cdss(g) ==
    LET all_coords == GroupCoords(g) IN
    IF all_coords = {} THEN [grp |-> g, err |-> "ValueError"]
    ELSE make_cdss_from(g, 1, SetMin(all_coords), SetMax(all_coords))

\* font.getbbox(cds_id): right - left of the label, a fixed advance per glyph
LabelWidth(cds_id) == GlyphWidth * Len(cds_id)

\* label_x = self.width - (0.8 * self.margin), as a numerator over 5
LabelX(g) == 5 * g.width - 4 * g.margin

\* CDS.draw_label: the text is painted at (x, y); the vertical centring
\* depends on font metrics only and is left out
draw_label(ds, c, x, y) ==
    Paint(ds, c.canv, Prim("text", x, y, x + 5 * LabelWidth(c.cds_id[1]), y,
                           5, 1, "black", "black", 0))

\* one iteration of the loop of CDS_group.draw: r is what cds.draw() left,
\* then the label is drawn and measured when the track has an identifier
TrackDrawn(st, r, j, label) ==
    LET g2 == [st.grp EXCEPT !.cdss[j] = r.cds]
        labelled == r.cds.cds_id # <<>> /\ label
    IN  IF r.err # "none"
        THEN [st EXCEPT !.grp = g2, !.ds = r.ds, !.err = r.err]
        ELSE [grp |-> g2,
              ds  |-> IF labelled
                      THEN draw_label(r.ds, r.cds, LabelX(g2), r.cds.y)
                      ELSE r.ds,
              max_label_width |->
                  IF labelled /\ LabelWidth(r.cds.cds_id[1]) > st.max_label_width
                  THEN LabelWidth(r.cds.cds_id[1]) ELSE st.max_label_width,
              label_x_bound |-> st.label_x_bound \/ labelled,
              err |-> "none"]

\* the loop of CDS_group.draw over self.cdss, from track j on;
\* st is [grp, ds, max_label_width, label_x_bound, err]
RECURSIVE draw_tracks_from(_, _, _)
draw_tracks_from(st, j, label) ==
    IF j > Len(st.grp.cdss) \/ st.err # "none" THEN st
    ELSE The({draw_tracks_from(st2, j + 1, label) :
                  st2 \in {TrackDrawn(st, r, j, label) :
                               r \in {cds_draw(st.ds, st.grp.cdss[j])}}})

\* mutant: the widest label is left out of the remaining margin
RemainingMargin_NoLabel(g, max_label_width) ==
    Trunc(5 * g.width - LabelX(g), 5)

\* remaining_margin = int(self.width - (label_x + max_label_width))
RemainingMargin(g, max_label_width) ==
    Trunc(5 * g.width - (LabelX(g) + 5 * max_label_width), 5)

\* add_margin(img, right=right): a new image, the old one pasted at (0, 0)
add_margin(ds, img, right) ==
    [images |-> Append(ds.images,
                       [w |-> ds.images[img].w + right, h |-> ds.images[img].h,
                        ops |-> ds.images[img].ops]),
     drawn |-> ds.drawn]

\* the end of CDS_group.draw, after the loop: the error raised in the loop,
\* or the image returned as it is, or grown on the right by add_margin
TracksDrawn(st, label) ==
    IF st.err # "none" THEN [grp |-> st.grp, ds |-> st.ds, err |-> st.err]
    ELSE IF ~label THEN [grp |-> st.grp, ds |-> st.ds, err |-> "none"]
    ELSE IF ~st.label_x_bound
         THEN [grp |-> st.grp, ds |-> st.ds, err |-> "UnboundLocalError"]
    ELSE LET right == st.grp.margin - RemainingMargin(st.grp, st.max_label_width)
         IN  The({[grp |-> [st.grp EXCEPT !.img = Len(grown.images)],
                   ds |-> grown, err |-> "none"] :
                      grown \in {add_margin(st.ds, st.grp.img, right)}})

\* mutant: the tracks built before make_cdss raised are drawn, then it raises
group_draw_Eager(ds, g, label) ==
    The({IF made.err # "none"
         THEN The({[grp |-> st.grp, ds |-> st.ds, err |-> made.err] :
                       st \in {draw_tracks_from(
                                   [grp |-> made.grp, ds |-> ds, max_label_width |-> 0,
                                    label_x_bound |-> FALSE, err |-> "none"], 1, label)}})
         ELSE The({TracksDrawn(st, label) :
                       st \in {draw_tracks_from(
                                   [grp |-> made.grp, ds |-> ds, max_label_width |-> 0,
                                    label_x_bound |-> FALSE, err |-> "none"], 1, label)}})
         : made \in {make_cdss(g)}})

\* CDS_group.draw: [grp, ds, err]
group_draw(ds, g, label) ==
    The({IF made.err # "none" THEN [grp |-> made.grp, ds |-> ds, err |-> made.err]
         ELSE The({TracksDrawn(st, label) :
                       st \in {draw_tracks_from(
                                   [grp |-> made.grp, ds |-> ds, max_label_width |-> 0,
                                    label_x_bound |-> FALSE, err |-> "none"], 1, label)}})
         : made \in {make_cdss(g)}})

----------------------------------------------------------------------------
(* The group: one CDS_group on the canvas its constructor creates *)

Prefix(s, n) == SubSeq(s, 1, n)

\* list lengths around the number of tracks: one short, equal, one long
LengthsNear(n) == {k \in {n - 1, n, n + 1} : k >= 0}

InitGroup ==
    /\ \E cc \in SeqsUpTo(GroupTracks, MaxTracks), lay \in Layouts :
       \E lf \in LengthsNear(Len(cc)), lo \in LengthsNear(Len(cc)),
          li \in LengthsNear(Len(cc)) \cup {0} :
           /\ grp = NewGroup(cc, Prefix(Names, li), GroupGeom[1], GroupGeom[2],
                             lay[1], lay[2], Prefix(Palette, lf),
                             [i \in 1..lo |-> Outline], LineWidths[2])
           /\ grp.height >= 0
           /\ images = <<NewImage(grp.width, grp.height)>>
    /\ cds = NoCDS
    /\ pass = [op |-> "init", label |-> FALSE, drawn |-> <<>>, ret |-> 0]
    /\ err = "none"
    /\ calls = 0

GroupReady == err = "none" /\ calls < MaxGroupCalls

GroupMakeCdss ==
    /\ GroupReady
    /\ \E made \in {make_cdss(grp)} :
       /\ grp' = made.grp
       /\ Called("make_cdss", FALSE, Start("make_cdss"), made.err, 0)
    /\ UNCHANGED cds

GroupDraw ==
    /\ GroupReady
    /\ \E label \in BOOLEAN :
           \E r \in {group_draw(Start("draw"), grp, label)} :
           /\ grp' = r.grp
           /\ Called("group_draw", label, r.ds, r.err, r.grp.img)
    /\ UNCHANGED cds

NextGroup == GroupMakeCdss \/ GroupDraw

SpecGroup == InitGroup /\ [][NextGroup]_vars

----------------------------------------------------------------------------
(* Properties of the stand-alone track *)

NumIntervals == Len(cds.exon_coords)

\* the interval exon k of self.exons was laid out from: every call of
\* make_exons appends one exon per interval, in list order
IntervalOf(k) == cds.exon_coords[((k - 1) % NumIntervals) + 1]

TrackMin == SetMin(AllCoords(cds.exon_coords))
TrackMax == SetMax(AllCoords(cds.exon_coords))

\* the <<coordinate, pixel>> pairs of every exon edge the track holds
EdgePairs ==
    UNION {{<<IntervalOf(k)[1], cds.exons[k].x1>>, <<IntervalOf(k)[2], cds.exons[k].x2>>} :
           k \in 1..Len(cds.exons)}

\* p is x1 + the integer part of ((c - min) / (max - min)) * (x2 - x1)
IsScaled(c, p) ==
    /\ (p - cds.x1) * (TrackMax - TrackMin) <= (c - TrackMin) * (cds.x2 - cds.x1)
    /\ (c - TrackMin) * (cds.x2 - cds.x1) < (p - cds.x1 + 1) * (TrackMax - TrackMin)

\* C1: on a track with a non-zero coordinate range and a pixel box with
\* x2 > x1, every exon edge lies at x1 + trunc(((c - min) / (max - min)) *
\* (x2 - x1)); the map is monotonic non-decreasing in c, the smallest
\* coordinate lands on x1 and the largest on x2; the example track in the
\* box [400, 2800] has its first left edge at 400 and its last right edge
\* at 2800.
C1_MappingLinear ==
    (cds.x2 > cds.x1 /\ cds.exons # <<>>) =>
        /\ \A e \in EdgePairs : IsScaled(e[1], e[2])
        /\ \A e \in EdgePairs, f \in EdgePairs : e[1] <= f[1] => e[2] <= f[2]
        /\ \A e \in EdgePairs : e[1] = TrackMin => e[2] = cds.x1
        /\ \A e \in EdgePairs : e[1] = TrackMax => e[2] = cds.x2
        /\ cds.exon_coords = ExampleCoords =>
               cds.exons[1].x1 = 400 /\ cds.exons[Len(cds.exons)].x2 = 2800

\* a laid-out track whose edges land on x1, on x2 and strictly in between
C1_Witness ==
    /\ cds.x2 > cds.x1
    /\ pass.op = "make_exons"
    /\ cds.exons # <<>>
    /\ \E e \in EdgePairs : cds.x1 < e[2] /\ e[2] < cds.x2
    /\ \E e \in EdgePairs : e[2] = cds.x1
    /\ \E e \in EdgePairs : e[2] = cds.x2

\* the exons the last layout call appended (the last NumIntervals of the list)
LastLaidOut == SubSeq(cds.exons, Len(cds.exons) - NumIntervals + 1, Len(cds.exons))

LaidOut == pass.op \in {"make_exons", "draw", "redraw"} /\ err = "none"

SortedByStart(ec) == \A i \in 1..Len(ec), j \in 1..Len(ec) : i < j => ec[i][1] <= ec[j][1]

\* C2 as stated: whatever the input order, the exons produced by layout are
\* in ascending order of genomic start, so their left edges are non-decreasing.
C2_SortedWhateverInputOrder ==
    LaidOut =>
        \A i \in 1..NumIntervals, j \in 1..NumIntervals :
            i < j => LastLaidOut[i].x1 <= LastLaidOut[j].x1

\* C2 amended: the exons a layout call appends are in the order of the input
\* list, one per interval; when the input is in ascending start order (and
\* x2 >= x1) their left edges are non-decreasing.
C2_InputOrderKept ==
    LaidOut =>
        /\ Len(LastLaidOut) = NumIntervals
        /\ \A i \in 1..NumIntervals :
               /\ IsScaled(cds.exon_coords[i][1], LastLaidOut[i].x1)
               /\ IsScaled(cds.exon_coords[i][2], LastLaidOut[i].x2)
        /\ SortedByStart(cds.exon_coords) =>
               \A i \in 1..NumIntervals, j \in 1..NumIntervals :
                   i < j => LastLaidOut[i].x1 <= LastLaidOut[j].x1

\* a layout of two intervals given in ascending order with distinct left edges
C2_Witness ==
    /\ LaidOut
    /\ NumIntervals = 2
    /\ cds.exon_coords[1][1] < cds.exon_coords[2][1]
    /\ LastLaidOut[1].x1 < LastLaidOut[2].x1

\* the rectangles and the line segments painted on image i, in paint order
IsRect(p) == p.kind = "rect"
Rects(i) == SelectSeq(images[i].ops, IsRect)

DrawnOn(canv, kind) ==
    LET hit(d) == d.canv = canv /\ d.prim.kind = kind
    IN  SelectSeq(pass.drawn, hit)

\* C4 as stated: after draw, an override of the fill of exon k and redraw,
\* the fresh canvas shows one rectangle per interval with the computed
\* geometry, the k-th in the overridden fill and the others in the track's fill.
C4_OverrideOnFreshCanvas ==
    (pass.op = "redraw" /\ err = "none" /\ Len(cds.exons) = 2 * NumIntervals) =>
        /\ Len(Rects(cds.canv)) = NumIntervals
        /\ \A j \in 1..NumIntervals :
               /\ Len(Rects(cds.canv)) >= j
               /\ Rects(cds.canv)[j].fill = cds.exons[j].fill
               /\ IsScaled(cds.exon_coords[j][1], Rects(cds.canv)[j].x1)
               /\ IsScaled(cds.exon_coords[j][2], Rects(cds.canv)[j].x2)

\* C5 as stated: after any number of layout, draw and redraw calls the track
\* holds exactly one exon per interval.
C5_LayoutIdempotent ==
    (err = "none" /\ cds.exons # <<>>) => Len(cds.exons) = NumIntervals

\* the connector the claim describes between the exons of intervals i-1 and i
\* drawn in the last pass: <<from x, apex x, to x, base y, apex y>> (y in
\* quarter pixels)
ClaimedConnector(i) ==
    LET a == LastLaidOut[i - 1].x2
        b == LastLaidOut[i].x1
        centre == Trunc(2 * cds.y + cds.height, 2)
    IN  <<a, Trunc(a + b, 2), b, 4 * centre, 4 * centre - cds.height>>

\* C6 as stated: every draw or redraw pass of a track with n >= 1 intervals
\* draws exactly n - 1 connectors on the current canvas, the i-th from the
\* right edge of exon i-1 through the apex to the left edge of exon i.
C6_ConnectorsPerPass ==
    (pass.op \in {"draw", "redraw"} /\ err = "none" /\ NumIntervals >= 1) =>
        LET lines == DrawnOn(cds.canv, "line") IN
        /\ Len(lines) = 2 * (NumIntervals - 1)
        /\ \A i \in 2..NumIntervals :
               LET up == lines[2 * (i - 1) - 1].prim
                   down == lines[2 * (i - 1)].prim
                   c == ClaimedConnector(i)
               IN  /\ <<up.x1, up.x2, up.y1, up.y2>> = <<c[1], c[2], c[4], c[5]>>
                   /\ <<down.x1, down.x2, down.y1, down.y2>> = <<c[2], c[3], c[5], c[4]>>

\* C9 as stated: laying out or drawing a track with no interval raises no
\* error, yields no exon and leaves the canvas without rectangle or line.
C9_EmptyTrackNoError ==
    (NumIntervals = 0 /\ pass.op \in {"make_exons", "draw", "redraw"}) =>
        /\ err = "none"
        /\ cds.exons = <<>>
        /\ pass.drawn = <<>>

----------------------------------------------------------------------------
(* Properties of the group *)

NumTracks == Len(grp.cds_coords)
Tracks == {grp.cdss[i] : i \in 1..Len(grp.cdss)}

GenMin(c) == SetMin(AllCoords(c.exon_coords))
GenMax(c) == SetMax(AllCoords(c.exon_coords))

\* [lo1, hi1] is a strict subset of [lo2, hi2]
StrictlyInside(lo1, hi1, lo2, hi2) ==
    lo2 <= lo1 /\ hi1 <= hi2 /\ <<lo1, hi1>> # <<lo2, hi2>>

\* every track's pixel span lies in [margin, width - margin], and a track
\* whose genomic span is a strict subset of another's has its pixel span
\* strictly inside the other's (positions are numerators over the same den)
Aligned ==
    /\ \A a \in Tracks :
           /\ grp.margin * a.den <= a.x1
           /\ a.x1 <= a.x2
           /\ a.x2 <= (grp.width - grp.margin) * a.den
    /\ \A a \in Tracks, b \in Tracks :
           StrictlyInside(GenMin(a), GenMax(a), GenMin(b), GenMax(b))
               => StrictlyInside(a.x1, a.x2, b.x1, b.x2)

\* C3 as stated: in any group built by make_cdss, a strict subset in genomic
\* span gives strict containment in pixel span, and every track lies inside
\* the drawable width [margin, width - margin].
C3_AlignedAlways == Aligned

\* C3 amended: the same, for a group whose width exceeds twice its margin.
C3_AlignedWhenDrawable == grp.width > 2 * grp.margin => Aligned

\* a built group with a track strictly inside another on both sides
C3_Witness ==
    /\ grp.width > 2 * grp.margin
    /\ pass.op = "make_cdss"
    /\ \E a \in Tracks, b \in Tracks :
           /\ GenMin(b) < GenMin(a) /\ GenMax(a) < GenMax(b)
           /\ b.x1 < a.x1 /\ a.x2 < b.x2

\* the labels the last draw painted, and the widest label a track carries
LabelsDrawn(p) ==
    LET isText(d) == d.prim.kind = "text"
    IN  SelectSeq(p.drawn, isText)

MaxLabelWidth(g) ==
    SetMax({0} \cup {LabelWidth(g.cdss[i].cds_id[1]) :
                         i \in {k \in 1..Len(g.cdss) : g.cdss[k].cds_id # <<>>}})

\* five times max(0, margin - (canvas_width - (label_x + max_label_width)))
ClaimedGrowth5(g) ==
    LET e == 5 * g.margin - (5 * g.width - (LabelX(g) + 5 * MaxLabelWidth(g)))
    IN  IF e > 0 THEN e ELSE 0

LabelledDraw(p, e) == p.op = "group_draw" /\ p.label /\ e = "none" /\ LabelsDrawn(p) # <<>>

\* C7 as stated: a draw with labels returns the image it started from
\* widened by exactly max(0, margin - (canvas_width - (label_x +
\* max_label_width))) pixels.
C7_GrowthExact ==
    [][LabelledDraw(pass', err') =>
           5 * (images'[grp'.img].w - images[grp.img].w) = ClaimedGrowth5(grp')]_vars

\* C7 amended: the widening is margin - int(canvas_width - (label_x +
\* max_label_width)), a whole number of pixels less than one pixel away from
\* the stated amount; the result is never narrower, keeps its height, and is
\* at least the overflow wider when the widest label exceeds the margin.
C7_GrowthTruncated ==
    [][LabelledDraw(pass', err') =>
           LET grown == images'[grp'.img].w - images[grp.img].w
               claimed == ClaimedGrowth5(grp')
           IN  /\ pass'.ret = grp'.img
               /\ images'[grp'.img].h = images[grp.img].h
               /\ 5 * grown > claimed - 5
               /\ 5 * grown < claimed + 5
               /\ grown >= 0
               /\ MaxLabelWidth(grp') > grp.margin =>
                      grown > 0 /\ grown >= MaxLabelWidth(grp') - grp.margin]_vars

\* a labelled draw whose widest label exceeds the margin, on a margin that
\* is no multiple of five pixels
C7_Witness ==
    /\ LabelledDraw(pass, err)
    /\ MaxLabelWidth(grp) > grp.margin
    /\ grp.margin % 5 # 0
    /\ images[grp.img].w > grp.width

\* the lists that are indexed by track number, when they must match
ListLengths == {Len(grp.fill_colours), Len(grp.outline_colours)}
                   \cup IF Len(grp.cds_ids) > 0 THEN {Len(grp.cds_ids)} ELSE {}

\* every track has an interval and the global coordinate range is non-zero
ValidCoords ==
    /\ \A i \in 1..NumTracks : grp.cds_coords[i] # <<>>
    /\ Cardinality(GroupCoords(grp)) > 1

\* C8 as stated: any mismatch between the number of tracks and the length of
\* a colour list or of a non-empty identifier list, shorter or longer, makes
\* draw fail with an index error before anything is drawn (checked on groups
\* whose coordinates are valid, so that no other error comes first).
C8_AnyMismatchFails ==
    (pass.op = "group_draw" /\ ValidCoords /\ \E n \in ListLengths : n # NumTracks) =>
        /\ err = "IndexError"
        /\ pass.drawn = <<>>

\* C8 amended: a list shorter than the number of tracks makes draw fail
\* before anything is drawn in that call, with an IndexError when every track
\* has an interval and the global range is non-zero (otherwise with the
\* ValueError or ZeroDivisionError raised first); a longer list is accepted.
C8_ShortListFails ==
    (pass.op = "group_draw" /\ \E n \in ListLengths : n < NumTracks) =>
        /\ err # "none"
        /\ pass.drawn = <<>>
        /\ ValidCoords => err = "IndexError"

\* a draw stopped by a short list after a first track had been built
C8_Witness ==
    /\ pass.op = "group_draw"
    /\ err = "IndexError"
    /\ ValidCoords
    /\ Len(grp.cdss) = 1
    /\ NumTracks = 2

\* C10 as stated: after any sequence of make_cdss and draw calls the group
\* holds exactly one track per interval list, in input order, track i at
\* y = margin + i * (cds_height + cds_spacing), inside the canvas height.
C10_OneTrackPerList ==
    (err = "none" /\ pass.op \in {"make_cdss", "group_draw"}) =>
        /\ Len(grp.cdss) = NumTracks
        /\ \A i \in 1..NumTracks :
               /\ Len(grp.cdss) >= i
               /\ grp.cdss[i].exon_coords = grp.cds_coords[i]
               /\ grp.cdss[i].y = grp.margin + (i - 1) * (grp.cds_height + grp.cds_spacing)
               /\ grp.cdss[i].y + grp.cdss[i].height <= grp.height

\* a draw with labels requested of a group without identifiers whose other
\* inputs are good: every track spans more than one coordinate and no
\* colour list is short
UnlabelledDraw ==
    /\ pass.op = "group_draw" /\ pass.label
    /\ Len(grp.cds_ids) = 0
    /\ ValidCoords /\ NumTracks > 0
    /\ \A i \in 1..NumTracks : Cardinality(AllCoords(grp.cds_coords[i])) > 1
    /\ \A n \in ListLengths : n >= NumTracks

\* C11 as stated: when a group is drawn with labels requested and no track
\* has an identifier, draw completes without error, draws every track and no
\* label, and returns the canvas it started from, not widened.
C11_NoLabelNoGrowth ==
    UnlabelledDraw =>
        /\ err = "none"
        /\ LabelsDrawn(pass) = <<>>
        /\ Len(DrawnOn(grp.canv, "rect")) >= NumTracks
        /\ pass.ret = grp.img
        /\ Len(images) = 1
        /\ images[grp.img].w = grp.width

====
